---- MODULE Spec2Model ----
(***************************************************************************)
(* Shopping cart of the storefront: the CartContext store                  *)
(* (src/src/context/CartContext.tsx), the Cart page component              *)
(* (src/src/components/Cart.tsx), the Products page that adds to the cart  *)
(* (src/src/pages/Products.tsx) and the cart_items table they write        *)
(* (src/supabase-setup.sql).  Prices are in cents.  Each call runs to its  *)
(* settlement in one step; the remote requests of a call may fail.         *)
(***************************************************************************)
EXTENDS Integers, Sequences, FiniteSets, TLC

VARIABLES
    user,          \* useAuth().user: "none" or the signed-in identity
    cart_items,    \* remote table cart_items: set of rows
    nextId,        \* next value of the SERIAL primary key of cart_items
    items,         \* CartContext: useState<CartItem[]>
    cartCount,     \* CartContext: useState(0)
    total,         \* CartContext: useState(0)
    effectPending, \* the [items] effect of CartContext is scheduled and has not run
    cartItems,     \* Cart component: useState<CartItem[]>
    error,         \* Cart component: useState<string | null>
    last,          \* observation: the most recent call and how it settled
    firstAdd,      \* observation: that call's product and quantity, if a first add
    inFlight,      \* calls that have been issued and have not settled, oldest first
    loading,       \* Cart component: useState(true)
    processing,    \* Cart component: useState(false)
    subtotal,      \* Cart component: calculateSubtotal() of its latest render
    orders,        \* remote table orders: set of rows
    order_items,   \* remote table order_items: set of rows
    shown,         \* product card: the prices rendered last and the discount badge
    pageQuantity   \* product page: the quantity selected for the next add

vars == <<user, cart_items, nextId, items, cartCount, total,
          effectPending, cartItems, error, last, firstAdd,
          inFlight, loading, processing, subtotal, orders, order_items, shown,
          pageQuantity>>

remoteVars == <<cart_items, nextId>>
contextVars == <<items, cartCount, total, effectPending>>
cartPageVars == <<cartItems, error>>
cartFlagVars == <<loading, processing, subtotal>>
orderVars == <<orders, order_items>>
productPageVars == <<shown, pageQuantity>>
otherVars == <<inFlight, orderVars, productPageVars>>

(***************************************************************************)
(* Bounds of the model                                                     *)
(***************************************************************************)
MaxQuantity == 3    \* largest quantity an operation is asked to produce
MaxId == 2          \* number of primary keys cart_items hands out in a run
MaxPrice == 10      \* largest price a rendered product card is given
MaxInFlight == 2    \* number of calls that may be awaiting their responses at once
MaxOrders == 1      \* number of orders rows the checkout may insert
MaxInput == 12      \* largest magnitude of an integer typed into the quantity input

NoUser == "none"
Users == {"A"}

QuantityArgs == (0 - 1)..MaxQuantity   \* quantity arguments, 0 and a negative included
ItemIds == 1..MaxId                    \* line ids a caller may name

(***************************************************************************)
(* The products table: read-only for the cart.  Product 1 is discounted,   *)
(* product 2 has discount_price 0, product 3 has discount_price NULL.      *)
(* Id 4 has no products row.                                               *)
(***************************************************************************)
NullPrice == [null |-> TRUE, value |-> 0]
Price(v) == [null |-> FALSE, value |-> v]

products ==
    { [id |-> 1, price |-> 1000, discount_price |-> Price(800), stock_quantity |-> 3],
      [id |-> 2, price |-> 500,  discount_price |-> Price(0),   stock_quantity |-> 2],
      [id |-> 3, price |-> 5000, discount_price |-> NullPrice,  stock_quantity |-> 5] }

ProductIds == {p.id : p \in products}
ProductIdArgs == ProductIds \cup {4}

Undefined == [defined |-> FALSE]
Snapshot(p) == [defined |-> TRUE, id |-> p.id, price |-> p.price,
                discount_price |-> p.discount_price,
                stock_quantity |-> p.stock_quantity]

\* select ... from products where id = productId
ProductRow(productId) ==
    IF productId \in ProductIds
    THEN Snapshot(CHOOSE p \in products : p.id = productId)
    ELSE Undefined

(***************************************************************************)
(* cart_items under its row-level-security policies: every statement of    *)
(* identity u sees and touches only rows with user_id = u.                 *)
(***************************************************************************)
OwnRows(u) == {r \in cart_items : r.user_id = u}

RECURSIVE ById(_)
\* rows of a select, as the array the client receives (in primary-key order)
ById(rows) ==
    IF rows = {} THEN <<>>
    ELSE LET r == CHOOSE x \in rows : \A y \in rows : x.id <= y.id
         IN  <<r>> \o ById(rows \ {r})

\* .update({quantity}).eq('user_id', u).eq('product_id', productId)
UpdateByProduct(u, productId, quantity) ==
    { IF r.user_id = u /\ r.product_id = productId
      THEN [r EXCEPT !.quantity = quantity] ELSE r : r \in cart_items }

\* .delete().eq('user_id', u).eq('product_id', productId)
DeleteByProduct(u, productId) ==
    { r \in cart_items : ~(r.user_id = u /\ r.product_id = productId) }

\* .delete().eq('user_id', u)
DeleteAll(u) == { r \in cart_items : r.user_id # u }

\* .update({quantity}).eq('id', itemId) on a table without the update policy
UpdateByIdUnrestricted(u, itemId, quantity) ==
    { IF r.id = itemId THEN [r EXCEPT !.quantity = quantity] ELSE r : r \in cart_items }

\* .update({quantity}).eq('id', itemId), filtered by the update policy
UpdateById(u, itemId, quantity) ==
    { IF r.user_id = u /\ r.id = itemId
      THEN [r EXCEPT !.quantity = quantity] ELSE r : r \in cart_items }

\* .delete().eq('id', itemId), filtered by the delete policy
DeleteById(u, itemId) ==
    { r \in cart_items : ~(r.user_id = u /\ r.id = itemId) }

\* .insert([{user_id, product_id, quantity}]).select().single()
NewRow(u, productId, quantity) ==
    [id |-> nextId, user_id |-> u, product_id |-> productId, quantity |-> quantity]

(***************************************************************************)
(* Sequence helpers (Array.prototype.map / find)                           *)
(***************************************************************************)
MapSeq(s, F(_)) == [i \in 1..Len(s) |-> F(s[i])]

\* items.find(item => item.product_id === productId): index of the first match, 0 if none
FindIndex(s, productId) ==
    IF \E i \in 1..Len(s) : s[i].product_id = productId
    THEN CHOOSE i \in 1..Len(s) :
            /\ s[i].product_id = productId
            /\ \A j \in 1..(i - 1) : s[j].product_id # productId
    ELSE 0

(***************************************************************************)
(* How a call settled: the new local items, the new remote table, what was *)
(* thrown to the caller, how many remote requests were issued, whether one *)
(* of them failed, and whether setItems was called.                        *)
(***************************************************************************)
Settled(its, rows, nid, raised, calls, failed, set) ==
    [items |-> its, cart_items |-> rows, nextId |-> nid, raised |-> raised,
     calls |-> calls, failed |-> failed, setItems |-> set]

Returned == Settled(items, cart_items, nextId, "none", 0, FALSE, FALSE)

\* a variant of Thrown: the catch block logs the failure and returns
Logged(what, calls) == Settled(items, cart_items, nextId, "none", calls, TRUE, FALSE)

Thrown(what, calls) == Settled(items, cart_items, nextId, what, calls, TRUE, FALSE)

(***************************************************************************)
(* CartContext                                                             *)
(***************************************************************************)
\* the embedded `products (...)` of one selected row, as the array the store indexes
EmbeddedProducts(row) ==
    IF ProductRow(row.product_id).defined THEN <<ProductRow(row.product_id)>> ELSE <<>>

\* item.products[0]
ElementZero(array) == IF Len(array) > 0 THEN array[1] ELSE Undefined

\* data.map(item => ({...item, product: item.products[0]})).filter(item => item.product)
TransformedData(data) ==
    SelectSeq(MapSeq(data, LAMBDA row :
                  [id |-> row.id, product_id |-> row.product_id,
                   quantity |-> row.quantity,
                   product |-> ElementZero(EmbeddedProducts(row))]),
              LAMBDA item : item.product.defined)

\* fetchCartItems, run by the [user] effect for identity u; the catch only logs
fetchCartItems(u, ok) ==
    IF ~ok
    THEN Settled(items, cart_items, nextId, "none", 1, TRUE, FALSE)
    ELSE Settled(TransformedData(ById(OwnRows(u))), cart_items, nextId,
                 "none", 1, FALSE, TRUE)

\* a variant of updateQuantity that changes the local line before the remote
\* write is confirmed and keeps the change when the write fails
updateQuantityOptimistic(productId, quantity, ok) ==
    IF user = NoUser \/ quantity < 1 THEN Returned
    ELSE LET changed == MapSeq(items, LAMBDA item :
                            IF item.product_id = productId
                            THEN [item EXCEPT !.quantity = quantity] ELSE item)
         IN  IF ~ok THEN Settled(changed, cart_items, nextId, "error", 1, TRUE, TRUE)
             ELSE Settled(changed, UpdateByProduct(user, productId, quantity), nextId,
                          "none", 1, FALSE, TRUE)

\* a variant of updateQuantity whose guard lets quantity 0 through
updateQuantityFromZero(productId, quantity, ok) ==
    IF user = NoUser \/ quantity < 0 THEN Returned
    ELSE IF ~ok THEN Thrown("error", 1)
    ELSE Settled(MapSeq(items, LAMBDA item :
                     IF item.product_id = productId
                     THEN [item EXCEPT !.quantity = quantity] ELSE item),
                 UpdateByProduct(user, productId, quantity), nextId,
                 "none", 1, FALSE, TRUE)

\* a variant of updateQuantity whose setItems gives the quantity to every line
updateQuantityEveryLine(productId, quantity, ok) ==
    IF user = NoUser \/ quantity < 1 THEN Returned
    ELSE IF ~ok THEN Thrown("error", 1)
    ELSE Settled(MapSeq(items, LAMBDA item : [item EXCEPT !.quantity = quantity]),
                 UpdateByProduct(user, productId, quantity), nextId,
                 "none", 1, FALSE, TRUE)

updateQuantity(productId, quantity, ok) ==
    IF user = NoUser \/ quantity < 1 THEN Returned
    ELSE IF ~ok THEN Thrown("error", 1)
    ELSE Settled(MapSeq(items, LAMBDA item :
                     IF item.product_id = productId
                     THEN [item EXCEPT !.quantity = quantity] ELSE item),
                 UpdateByProduct(user, productId, quantity), nextId,
                 "none", 1, FALSE, TRUE)

\* a variant of addToCart that inserts without looking at the fetched product
addToCartUnchecked(productId, quantity, fail) ==
    IF user = NoUser THEN Returned
    ELSE LET i == FindIndex(items, productId) IN
         IF i # 0
         THEN updateQuantity(productId, items[i].quantity + quantity, fail # 1)
         ELSE LET productData == ProductRow(productId) IN
              IF fail = 1
              THEN Thrown("Product not found", 1)
              ELSE IF fail = 2 THEN Thrown("error", 2)
              ELSE LET data == NewRow(user, productId, quantity) IN
                   Settled(Append(items, [id |-> data.id,
                                          product_id |-> data.product_id,
                                          quantity |-> data.quantity,
                                          product |-> productData]),
                           cart_items \cup {data}, nextId + 1,
                           "none", 2, FALSE, TRUE)

\* a variant of addToCart that hands the added quantity, not the sum, to updateQuantity
addToCartOverwrites(productId, quantity, fail) ==
    IF user = NoUser THEN Returned
    ELSE LET i == FindIndex(items, productId) IN
         IF i # 0
         THEN updateQuantity(productId, quantity, fail # 1)
         ELSE LET productData == ProductRow(productId) IN
              IF fail = 1 \/ ~productData.defined
              THEN Thrown("Product not found", 1)
              ELSE IF fail = 2 THEN Thrown("error", 2)
              ELSE LET data == NewRow(user, productId, quantity) IN
                   Settled(Append(items, [id |-> data.id,
                                          product_id |-> data.product_id,
                                          quantity |-> data.quantity,
                                          product |-> productData]),
                           cart_items \cup {data}, nextId + 1,
                           "none", 2, FALSE, TRUE)

\* fail: which remote request of the call fails (0: none)
addToCart(productId, quantity, fail) ==
    IF user = NoUser THEN Returned
    ELSE LET i == FindIndex(items, productId) IN
         IF i # 0
         THEN updateQuantity(productId, items[i].quantity + quantity, fail # 1)
         ELSE LET productData == ProductRow(productId) IN
              IF fail = 1 \/ ~productData.defined
              THEN Thrown("Product not found", 1)
              ELSE IF fail = 2 THEN Thrown("error", 2)
              ELSE LET data == NewRow(user, productId, quantity) IN
                   Settled(Append(items, [id |-> data.id,
                                          product_id |-> data.product_id,
                                          quantity |-> data.quantity,
                                          product |-> productData]),
                           cart_items \cup {data}, nextId + 1,
                           "none", 2, FALSE, TRUE)

\* a variant of removeFromCart that deletes remotely and never calls setItems
removeFromCartRemoteOnly(productId, ok) ==
    IF user = NoUser THEN Returned
    ELSE IF ~ok THEN Thrown("error", 1)
    ELSE Settled(items, DeleteByProduct(user, productId), nextId, "none", 1, FALSE, FALSE)

removeFromCart(productId, ok) ==
    IF user = NoUser THEN Returned
    ELSE IF ~ok THEN Thrown("error", 1)
    ELSE Settled(SelectSeq(items, LAMBDA item : item.product_id # productId),
                 DeleteByProduct(user, productId), nextId, "none", 1, FALSE, TRUE)

\* a variant of clearCart that deletes the remote rows of the local lines only
clearCartLocalLines(ok) ==
    IF user = NoUser THEN Returned
    ELSE IF ~ok THEN Thrown("error", 1)
    ELSE Settled(<<>>,
                 { r \in cart_items :
                      ~(r.user_id = user /\ \E i \in 1..Len(items) : items[i].id = r.id) },
                 nextId, "none", 1, FALSE, TRUE)

\* a variant of clearCart without its `if (!user) return`
clearCartUnguarded(ok) ==
    IF ~ok THEN Thrown("error", 1)
    ELSE Settled(<<>>, DeleteAll(user), nextId, "none", 1, FALSE, TRUE)

clearCart(ok) ==
    IF user = NoUser THEN Returned
    ELSE IF ~ok THEN Thrown("error", 1)
    ELSE Settled(<<>>, DeleteAll(user), nextId, "none", 1, FALSE, TRUE)

\* a variant of newCount that counts lines, not units
newCountLines(its) == Len(its)

\* the [items] effect: newCount and newTotal
RECURSIVE newCount(_)
newCount(its) ==
    IF its = <<>> THEN 0
    ELSE newCount(SubSeq(its, 1, Len(its) - 1)) + its[Len(its)].quantity

\* a variant of effectivePrice: discount_price || price
effectivePriceOr(product) ==
    IF ~product.discount_price.null /\ product.discount_price.value # 0
    THEN product.discount_price.value
    ELSE product.price

\* discount_price !== undefined && discount_price !== null ? discount_price : price
effectivePrice(product) ==
    IF ~product.discount_price.null THEN product.discount_price.value
    ELSE product.price

RECURSIVE newTotal(_)
newTotal(its) ==
    IF its = <<>> THEN 0
    ELSE LET sum == newTotal(SubSeq(its, 1, Len(its) - 1))
             item == its[Len(its)]
         IN  IF ~item.product.defined THEN sum
             ELSE sum + effectivePrice(item.product) * item.quantity

(***************************************************************************)
(* Cart component (src/src/components/Cart.tsx): its own copy of the cart, *)
(* keyed by line id.  Its handlers catch every failure and store a message *)
(* in `error`; nothing is thrown to the caller.  The three messages are    *)
(* modelled as one.                                                        *)
(***************************************************************************)
NoError == "null"
Failed == "Failed"

PageSettled(its, rows, err, calls, failed) ==
    [cartItems |-> its, cart_items |-> rows, error |-> err,
     calls |-> calls, failed |-> failed]

\* what the component computes when it renders its table
NotRendered == [kind |-> "none", value |-> 0]
TypeError == [kind |-> "TypeError", value |-> 0]
Number(v) == [kind |-> "number", value |-> v]

\* getItemPrice: item.product.discount_price || item.product.price
getItemPrice(item) ==
    IF ~item.product.defined THEN TypeError
    ELSE IF ~item.product.discount_price.null /\ item.product.discount_price.value # 0
    THEN Number(item.product.discount_price.value)
    ELSE Number(item.product.price)

\* calculateSubtotal: cartItems.reduce((total, item) => total + price * item.quantity, 0)
calculateSubtotal(its) ==
    LET S[n \in 0..Len(its)] ==
            IF n = 0 THEN 0 ELSE S[n - 1] + getItemPrice(its[n]).value * its[n].quantity
    IN  IF \E i \in 1..Len(its) : getItemPrice(its[i]) = TypeError THEN TypeError
        ELSE Number(S[Len(its)])

\* no product card has been rendered
NotShown == [price |-> 0, discount_price |-> NullPrice, percent |-> NotRendered,
             listPercent |-> NotRendered]

\* Cart.fetchCartItems: select *, product:products(...) where user_id = user.id
CartFetchCartItems(ok) ==
    IF ~ok
    THEN PageSettled(cartItems, cart_items, Failed, 1, TRUE)
    ELSE PageSettled(MapSeq(ById(OwnRows(user)), LAMBDA row :
                         [id |-> row.id, product_id |-> row.product_id,
                          quantity |-> row.quantity,
                          product |-> ProductRow(row.product_id)]),
                     cart_items, NoError, 1, FALSE)

\* Cart.updateQuantity(itemId, newQuantity)
CartUpdateQuantity(itemId, newQuantity, ok) ==
    IF newQuantity < 1 THEN PageSettled(cartItems, cart_items, error, 0, FALSE)
    ELSE IF ~ok
    THEN PageSettled(cartItems, cart_items, Failed, 1, TRUE)
    ELSE PageSettled(MapSeq(cartItems, LAMBDA item :
                         IF item.id = itemId
                         THEN [item EXCEPT !.quantity = newQuantity] ELSE item),
                     UpdateById(user, itemId, newQuantity), error, 1, FALSE)

\* Cart.removeItem(itemId)
CartRemoveItem(itemId, ok) ==
    IF ~ok
    THEN PageSettled(cartItems, cart_items, Failed, 1, TRUE)
    ELSE PageSettled(SelectSeq(cartItems, LAMBDA item : item.id # itemId),
                     DeleteById(user, itemId), error, 1, FALSE)

(***************************************************************************)
(* Observations of the most recent call, for stating what callers see.     *)
(*   op             which function was called                              *)
(*   low            its quantity argument was < 1                          *)
(*   pre            the cart before the call.  removeFromCart(p): "only"   *)
(*                  when every line, local and remote, was for p, "absent" *)
(*                  when no line was for p.  addToCart(p): "noProduct"     *)
(*                  when there was no local line for p and products has no *)
(*                  row p.  clearCart: "duplicates" when the remote table  *)
(*                  held two lines of the identity for one product.        *)
(*                  "other" otherwise                                      *)
(*   raised         what it threw to its caller ("none": it returned)      *)
(*   calls          how many remote requests it issued                     *)
(*   failed         one of them failed                                     *)
(*   alert          what the calling page then told the user               *)
(*   localChanged   the local list of lines differs from before the call   *)
(*   remoteChanged  cart_items differs from before the call                *)
(* firstAdd: set by a successful addToCart(p, q >= 1) of a product with no *)
(* line; `next` is the quantity of a successful addToCart(p, q2 >= 1) that *)
(* was the very next call.  Any other call resets it.                      *)
(***************************************************************************)
Observe(op, low, pre, raised, calls, failed, alert, localChanged, remoteChanged) ==
    [op |-> op, low |-> low, pre |-> pre, raised |-> raised, calls |-> calls,
     failed |-> failed, alert |-> alert, localChanged |-> localChanged,
     remoteChanged |-> remoteChanged]

NoCall == Observe("none", FALSE, "other", "none", 0, FALSE, "none", FALSE, FALSE)
NoAdd == [product_id |-> 0, quantity |-> 0, next |-> 0]

\* no line for productId, neither in CartContext nor in the remote table
NoLine(productId) ==
    /\ FindIndex(items, productId) = 0
    /\ \A r \in OwnRows(user) : r.product_id # productId

\* the cart has lines, and all of them, local and remote, are for productId
OnlyLine(productId) ==
    /\ items # <<>>
    /\ OwnRows(user) # {}
    /\ \A i \in 1..Len(items) : items[i].product_id = productId
    /\ \A r \in OwnRows(user) : r.product_id = productId

\* the remote table holds two lines of identity u for one product
HasDuplicates(u) ==
    \E r1, r2 \in OwnRows(u) : r1 # r2 /\ r1.product_id = r2.product_id

\* the model follows a call only while ids and quantities stay within the bounds
WithinBounds(rows, nid, lines) ==
    /\ nid <= MaxId + 1
    /\ \A r \in rows : r.quantity <= MaxQuantity
    /\ \A i \in 1..Len(lines) : lines[i].quantity <= MaxQuantity

\* a CartContext call settles as r
ContextCall(op, low, pre, r, alert) ==
    /\ ~effectPending
    /\ WithinBounds(r.cart_items, r.nextId, r.items)
    /\ items' = r.items
    /\ cart_items' = r.cart_items
    /\ nextId' = r.nextId
    /\ effectPending' = r.setItems
    /\ last' = Observe(op, low, pre, r.raised, r.calls, r.failed, alert,
                       r.items # items, r.cart_items # cart_items)
    /\ UNCHANGED <<user, cartCount, total, cartPageVars, cartFlagVars, otherVars>>

\* a Cart component call settles as r
PageCall(op, low, r) ==
    /\ ~effectPending
    /\ WithinBounds(r.cart_items, nextId, r.cartItems)
    /\ cartItems' = r.cartItems
    /\ error' = r.error
    /\ cart_items' = r.cart_items
    /\ last' = Observe(op, low, "other", "none", r.calls, r.failed, "none",
                       r.cartItems # cartItems, r.cart_items # cart_items)
    /\ firstAdd' = NoAdd
    /\ loading' = IF op = "Cart.fetchCartItems" THEN FALSE ELSE loading
    /\ processing' = IF r.calls > 0 /\ op # "Cart.fetchCartItems" THEN FALSE ELSE processing
    /\ subtotal' = IF loading' THEN NotRendered ELSE calculateSubtotal(r.cartItems)
    /\ UNCHANGED <<user, nextId, contextVars, otherVars>>

(***************************************************************************)
(* Actions                                                                 *)
(***************************************************************************)
Init ==
    /\ user = NoUser
    /\ cart_items = {}
    /\ nextId = 1
    /\ items = <<>>
    /\ cartCount = 0
    /\ total = 0
    /\ effectPending = TRUE
    /\ cartItems = <<>>
    /\ error = NoError
    /\ last = NoCall
    /\ firstAdd = NoAdd
    /\ inFlight = <<>>
    /\ loading = TRUE
    /\ processing = FALSE
    /\ subtotal = NotRendered
    /\ orders = {}
    /\ order_items = {}
    /\ shown = NotShown
    /\ pageQuantity = 1

\* the [items] effect of CartProvider
ItemsEffect ==
    /\ effectPending
    /\ cartCount' = newCount(items)
    /\ total' = newTotal(items)
    /\ effectPending' = FALSE
    /\ UNCHANGED <<user, remoteVars, items, cartPageVars, last, firstAdd,
                   cartFlagVars, otherVars>>

\* the [user] effect of CartProvider when u is signed in: fetchCartItems()
Load(u, ok) ==
    LET r == fetchCartItems(u, ok) IN
    /\ ~effectPending
    /\ user' = u
    /\ items' = r.items
    /\ effectPending' = r.setItems
    /\ last' = Observe("fetchCartItems", FALSE, "other", r.raised, r.calls,
                       r.failed, "none", r.items # items, FALSE)
    /\ firstAdd' = NoAdd
    /\ UNCHANGED <<remoteVars, cartCount, total, cartPageVars, cartFlagVars, otherVars>>

UserEffectSignedIn == \E u \in Users, ok \in BOOLEAN : Load(u, ok)

\* the [user] effect of CartProvider when nobody is signed in
UserEffectSignedOut ==
    /\ ~effectPending
    /\ user # NoUser
    /\ user' = NoUser
    /\ items' = <<>>
    /\ cartCount' = 0
    /\ total' = 0
    /\ effectPending' = TRUE
    /\ last' = Observe("signOut", FALSE, "other", "none", 0, FALSE, "none",
                       items # <<>>, FALSE)
    /\ firstAdd' = NoAdd
    /\ UNCHANGED <<remoteVars, cartPageVars, cartFlagVars, otherVars>>

\* addToCart(productId, quantity) settles; alert is what its caller then shows
Add(productId, quantity, fail, alert) ==
    LET r == addToCart(productId, quantity, fail)
        succeeded == user # NoUser /\ quantity >= 1 /\ r.raised = "none" /\ r.calls > 0
    IN  /\ ContextCall("addToCart", quantity < 1,
                        IF FindIndex(items, productId) = 0 /\ ~ProductRow(productId).defined
                        THEN "noProduct" ELSE "other",
                        r, alert)
        /\ firstAdd' =
              IF succeeded /\ NoLine(productId)
              THEN [product_id |-> productId, quantity |-> quantity, next |-> 0]
              ELSE IF succeeded /\ firstAdd.product_id = productId /\ firstAdd.next = 0
              THEN [firstAdd EXCEPT !.next = quantity]
              ELSE NoAdd

\* a consumer of the context calls addToCart(productId, quantity)
AddToCart ==
    \E productId \in ProductIdArgs, quantity \in 0..MaxQuantity :
        \E fail \in 0..addToCart(productId, quantity, 0).calls :
            Add(productId, quantity, fail, "none")

\* Products page: what handleAddToCart alerts once addToCart has settled as r
handleAddToCart(r) ==
    IF r.raised = "none" THEN "Product added to cart!"
    ELSE "Failed to add product to cart. Please try again."

\* Products page: handleAddToCart(productId)
HandleAddToCart ==
    \E productId \in ProductIds :
        \E fail \in 0..addToCart(productId, 1, 0).calls :
            Add(productId, 1, fail, handleAddToCart(addToCart(productId, 1, fail)))

SetQuantity(productId, quantity, ok) ==
    /\ ContextCall("updateQuantity", quantity < 1, "other",
                   updateQuantity(productId, quantity, ok), "none")
    /\ firstAdd' = NoAdd

UpdateQuantity ==
    \E productId \in ProductIds, quantity \in QuantityArgs, ok \in BOOLEAN :
        SetQuantity(productId, quantity, ok)

Remove(productId, ok) ==
    /\ ContextCall("removeFromCart", FALSE,
                   IF OnlyLine(productId) THEN "only"
                   ELSE IF NoLine(productId) THEN "absent" ELSE "other",
                   removeFromCart(productId, ok), "none")
    /\ firstAdd' = NoAdd

RemoveFromCart == \E productId \in ProductIds, ok \in BOOLEAN : Remove(productId, ok)

Clear(ok) ==
    /\ ContextCall("clearCart", FALSE,
                   IF HasDuplicates(user) THEN "duplicates" ELSE "other",
                   clearCart(ok), "none")
    /\ firstAdd' = NoAdd

ClearCart == \E ok \in BOOLEAN : Clear(ok)

\* Cart component: the [user] effect with a user
PageFetch(ok) ==
    /\ user # NoUser
    /\ PageCall("Cart.fetchCartItems", FALSE, CartFetchCartItems(ok))

PageFetchCartItems == \E ok \in BOOLEAN : PageFetch(ok)

PageUpdate(itemId, newQuantity, ok) ==
    PageCall("Cart.updateQuantity", newQuantity < 1,
             CartUpdateQuantity(itemId, newQuantity, ok))

PageUpdateQuantity ==
    \E itemId \in ItemIds, newQuantity \in QuantityArgs, ok \in BOOLEAN :
        PageUpdate(itemId, newQuantity, ok)

PageRemove(itemId, ok) ==
    PageCall("Cart.removeItem", FALSE, CartRemoveItem(itemId, ok))

PageRemoveItem == \E itemId \in ItemIds, ok \in BOOLEAN : PageRemove(itemId, ok)

\* the session of the CartContext store
Next ==
    \/ ItemsEffect
    \/ UserEffectSignedIn
    \/ UserEffectSignedOut
    \/ AddToCart
    \/ HandleAddToCart
    \/ UpdateQuantity
    \/ RemoveFromCart
    \/ ClearCart

Spec == Init /\ [][Next]_vars

(***************************************************************************)
(* The cart pages: a signed-in session that has added products 1 and 2     *)
(* once each, in which the Cart component is mounted next to the store.    *)
(***************************************************************************)
PageRows(u) ==
    { [id |-> 1, user_id |-> u, product_id |-> 1, quantity |-> 1],
      [id |-> 2, user_id |-> u, product_id |-> 2, quantity |-> 1] }

InitPage ==
    /\ user \in Users
    /\ cart_items = PageRows(user)
    /\ nextId = 3
    /\ items = TransformedData(ById(cart_items))
    /\ cartCount = newCount(items)
    /\ total = newTotal(items)
    /\ effectPending = FALSE
    /\ cartItems = <<>>
    /\ error = NoError
    /\ last = NoCall
    /\ firstAdd = NoAdd
    /\ inFlight = <<>>
    /\ loading = TRUE
    /\ processing = FALSE
    /\ subtotal = NotRendered
    /\ orders = {}
    /\ order_items = {}
    /\ shown = NotShown
    /\ pageQuantity = 1

NextPage ==
    \/ ItemsEffect
    \/ UpdateQuantity
    \/ PageFetchCartItems
    \/ PageUpdateQuantity
    \/ PageRemoveItem

SpecPage == InitPage /\ [][NextPage]_vars

(***************************************************************************)
(* Calls in flight.  An async function of the store runs up to its first   *)
(* await when it is called (it reads `user` and `items` of the render it   *)
(* was created in) and continues when the response arrives; any other      *)
(* handler may run in between.  A call is issued by one action and settled *)
(* by another; its remote requests take effect when it settles.            *)
(***************************************************************************)
Call(op, u, productId, quantity, existing) ==
    [op |-> op, user |-> u, product_id |-> productId, quantity |-> quantity,
     existing |-> existing]

\* inFlight without its i-th call
Without(i) == SubSeq(inFlight, 1, i - 1) \o SubSeq(inFlight, i + 1, Len(inFlight))

\* what the rest of call c does once its responses have arrived
Completion(c, ok) ==
    IF ~ok THEN Settled(items, cart_items, nextId,
                        IF c.op = "fetchCartItems" THEN "none" ELSE "error",
                        1, TRUE, FALSE)
    ELSE IF c.op = "fetchCartItems"
    THEN Settled(TransformedData(ById({r \in cart_items : r.user_id = c.user})),
                 cart_items, nextId, "none", 1, FALSE, TRUE)
    ELSE IF c.op = "addToCart" /\ c.existing = 0
    THEN LET data == [id |-> nextId, user_id |-> c.user,
                      product_id |-> c.product_id, quantity |-> c.quantity]
         IN  Settled(Append(items, [id |-> data.id, product_id |-> data.product_id,
                                    quantity |-> data.quantity,
                                    product |-> ProductRow(c.product_id)]),
                     cart_items \cup {data}, nextId + 1, "none", 2, FALSE, TRUE)
    ELSE IF c.op \in {"addToCart", "updateQuantity"}
    THEN Settled(MapSeq(items, LAMBDA item :
                     IF item.product_id = c.product_id
                     THEN [item EXCEPT !.quantity = c.existing + c.quantity] ELSE item),
                 UpdateByProduct(c.user, c.product_id, c.existing + c.quantity),
                 nextId, "none", 1, FALSE, TRUE)
    ELSE Settled(SelectSeq(items, LAMBDA item : item.product_id # c.product_id),
                 DeleteByProduct(c.user, c.product_id), nextId, "none", 1, FALSE, TRUE)

\* a handler starts call c
Issue(c) ==
    /\ ~effectPending
    /\ Len(inFlight) < MaxInFlight
    /\ inFlight' = Append(inFlight, c)

\* the [user] effect of CartProvider when u signs in: fetchCartItems() is called
IssueFetchCartItems ==
    \E u \in Users :
        /\ user # u
        /\ Issue(Call("fetchCartItems", u, 0, 0, 0))
        /\ user' = u
        /\ UNCHANGED <<remoteVars, contextVars, cartPageVars, cartFlagVars,
                       last, firstAdd, orderVars, productPageVars>>

\* Products page: the Add to Cart button, never disabled, calls addToCart(p, 1)
IssueAddToCart ==
    \E productId \in ProductIds :
        /\ user # NoUser
        /\ Issue(Call("addToCart", user, productId, 1,
                      IF FindIndex(items, productId) = 0 THEN 0
                      ELSE items[FindIndex(items, productId)].quantity))
        /\ UNCHANGED <<user, remoteVars, contextVars, cartPageVars, cartFlagVars,
                       last, firstAdd, orderVars, productPageVars>>

\* cart page: the quantity select of a line, never disabled, calls updateQuantity
IssueUpdateQuantity ==
    \E i \in 1..Len(items), quantity \in 1..MaxQuantity :
        /\ user # NoUser
        /\ Issue(Call("updateQuantity", user, items[i].product_id, quantity, 0))
        /\ UNCHANGED <<user, remoteVars, contextVars, cartPageVars, cartFlagVars,
                       last, firstAdd, orderVars, productPageVars>>

\* cart page: the Remove button of a line, never disabled, calls removeFromCart
IssueRemoveFromCart ==
    \E i \in 1..Len(items) :
        /\ user # NoUser
        /\ Issue(Call("removeFromCart", user, items[i].product_id, 0, 0))
        /\ UNCHANGED <<user, remoteVars, contextVars, cartPageVars, cartFlagVars,
                       last, firstAdd, orderVars, productPageVars>>

\* the responses of the i-th call in flight arrive and the call runs to its end
Settle(i, ok) ==
    LET r == Completion(inFlight[i], ok) IN
    /\ ~effectPending
    /\ WithinBounds(r.cart_items, r.nextId, r.items)
    /\ inFlight' = Without(i)
    /\ items' = r.items
    /\ cart_items' = r.cart_items
    /\ nextId' = r.nextId
    /\ effectPending' = r.setItems
    /\ UNCHANGED <<user, cartCount, total, cartPageVars, cartFlagVars,
                   last, orderVars, productPageVars>>

SettleCall ==
    \E i \in 1..Len(inFlight), ok \in BOOLEAN : Settle(i, ok) /\ UNCHANGED firstAdd

NextFlight ==
    \/ ItemsEffect
    \/ IssueFetchCartItems
    \/ UserEffectSignedOut
    \/ IssueAddToCart
    \/ IssueUpdateQuantity
    \/ IssueRemoveFromCart
    \/ SettleCall

SpecFlight == Init /\ [][NextFlight]_vars

(***************************************************************************)
(* The Cart component with its calls in flight.  Mounting it runs its      *)
(* [user] effect, which calls fetchCartItems; while `loading` it renders a *)
(* spinner and no button, and its buttons are disabled while `processing`. *)
(* Mounting it again gives a fresh component: calls of the previous one    *)
(* still reach the remote table, but their setState calls do nothing.      *)
(***************************************************************************)
CartCall(op, itemId, newQuantity) ==
    [op |-> op, id |-> itemId, quantity |-> newQuantity, mounted |-> TRUE]

\* the calls in flight once the component that issued them is unmounted
Unmounted(calls) == [i \in 1..Len(calls) |-> [calls[i] EXCEPT !.mounted = FALSE]]

\* how call c of the Cart component settles
CartCompletion(c, ok) ==
    IF c.op = "Cart.fetchCartItems" THEN CartFetchCartItems(ok)
    ELSE IF c.op = "Cart.updateQuantity" THEN CartUpdateQuantity(c.id, c.quantity, ok)
    ELSE CartRemoveItem(c.id, ok)

\* a variant of FlagsAfter that resets a flag at the end of the try block only
FlagsAfterTry(c, ok) ==
    [loading |-> IF c.op = "Cart.fetchCartItems" /\ ok THEN FALSE ELSE loading,
     processing |-> IF c.op # "Cart.fetchCartItems" /\ ok THEN FALSE ELSE processing]

\* the finally blocks: setLoading(false) of fetchCartItems, setProcessing(false)
\* of updateQuantity and removeItem
FlagsAfter(c, ok) ==
    [loading |-> IF c.op = "Cart.fetchCartItems" THEN FALSE ELSE loading,
     processing |-> IF c.op # "Cart.fetchCartItems" THEN FALSE ELSE processing]

\* the Cart component is mounted for the signed-in user
MountCart ==
    /\ user # NoUser
    /\ Len(inFlight) < MaxInFlight
    /\ inFlight' = Append(Unmounted(inFlight), CartCall("Cart.fetchCartItems", 0, 0))
    /\ cartItems' = <<>>
    /\ error' = NoError
    /\ loading' = TRUE
    /\ processing' = FALSE
    /\ subtotal' = NotRendered
    /\ UNCHANGED <<user, remoteVars, contextVars, last, firstAdd, orderVars, productPageVars>>

\* a button of the rendered table starts an update or a removal
CartClick(op, itemId, newQuantity) ==
    /\ ~loading
    /\ ~processing
    /\ subtotal # TypeError
    /\ Len(inFlight) < MaxInFlight
    /\ inFlight' = Append(inFlight, CartCall(op, itemId, newQuantity))
    /\ processing' = TRUE
    /\ UNCHANGED <<user, remoteVars, contextVars, cartPageVars, loading, subtotal,
                   last, firstAdd, orderVars, productPageVars>>

\* the minus button: disabled={item.quantity <= 1 || processing}
CartClickMinus ==
    \E i \in 1..Len(cartItems) :
        /\ cartItems[i].quantity > 1
        /\ CartClick("Cart.updateQuantity", cartItems[i].id, cartItems[i].quantity - 1)

\* the plus button: disabled={item.quantity >= item.product.stock_quantity || processing}
CartClickPlus ==
    \E i \in 1..Len(cartItems) :
        /\ cartItems[i].quantity < cartItems[i].product.stock_quantity
        /\ CartClick("Cart.updateQuantity", cartItems[i].id, cartItems[i].quantity + 1)

\* the remove button: disabled={processing}
CartClickRemove ==
    \E i \in 1..Len(cartItems) : CartClick("Cart.removeItem", cartItems[i].id, 0)

\* the response of a call of the Cart component arrives
SettleCartCall ==
    \E i \in 1..Len(inFlight), ok \in BOOLEAN :
        LET c == inFlight[i]
            r == CartCompletion(c, ok)
        IN  /\ WithinBounds(r.cart_items, nextId, r.cartItems)
            /\ inFlight' = Without(i)
            /\ cart_items' = r.cart_items
            /\ IF c.mounted
               THEN /\ cartItems' = r.cartItems
                    /\ error' = r.error
                    /\ loading' = FlagsAfter(c, ok).loading
                    /\ processing' = FlagsAfter(c, ok).processing
                    /\ subtotal' = IF loading' THEN NotRendered
                                   ELSE calculateSubtotal(cartItems')
               ELSE UNCHANGED <<cartPageVars, cartFlagVars>>
            /\ UNCHANGED <<user, nextId, contextVars, last, firstAdd, orderVars, productPageVars>>

\* the Cart component has just been mounted in a session with two lines
InitPending ==
    /\ user \in Users
    /\ cart_items = PageRows(user)
    /\ nextId = 3
    /\ items = TransformedData(ById(cart_items))
    /\ cartCount = newCount(items)
    /\ total = newTotal(items)
    /\ effectPending = FALSE
    /\ cartItems = <<>>
    /\ error = NoError
    /\ last = NoCall
    /\ firstAdd = NoAdd
    /\ inFlight = <<CartCall("Cart.fetchCartItems", 0, 0)>>
    /\ loading = TRUE
    /\ processing = FALSE
    /\ subtotal = NotRendered
    /\ orders = {}
    /\ order_items = {}
    /\ shown = NotShown
    /\ pageQuantity = 1

NextPending ==
    \/ MountCart
    \/ CartClickMinus
    \/ CartClickPlus
    \/ CartClickRemove
    \/ SettleCartCall

SpecPending == InitPending /\ [][NextPending]_vars

(***************************************************************************)
(* Row-level security: the table also holds a line of another identity,    *)
(* and the signed-in identity uses the store and the Cart component, whose *)
(* update and delete name a line by id only.                               *)
(***************************************************************************)
OtherUser == "B"

OtherRows == { [id |-> 1, user_id |-> OtherUser, product_id |-> 1, quantity |-> 2] }

OtherIds == { r.id : r \in OtherRows }

\* Cart.updateQuantity naming a line of the other identity
UpdateOthersLine ==
    \E itemId \in OtherIds, newQuantity \in QuantityArgs, ok \in BOOLEAN :
        PageUpdate(itemId, newQuantity, ok)

\* Cart.removeItem naming a line of the other identity
RemoveOthersLine == \E itemId \in OtherIds, ok \in BOOLEAN : PageRemove(itemId, ok)

InitRls ==
    /\ user = NoUser
    /\ cart_items = OtherRows
    /\ nextId = 2
    /\ items = <<>>
    /\ cartCount = 0
    /\ total = 0
    /\ effectPending = TRUE
    /\ cartItems = <<>>
    /\ error = NoError
    /\ last = NoCall
    /\ firstAdd = NoAdd
    /\ inFlight = <<>>
    /\ loading = TRUE
    /\ processing = FALSE
    /\ subtotal = NotRendered
    /\ orders = {}
    /\ order_items = {}
    /\ shown = NotShown
    /\ pageQuantity = 1

NextRls ==
    \/ ItemsEffect
    \/ UserEffectSignedIn
    \/ UserEffectSignedOut
    \/ AddToCart
    \/ UpdateQuantity
    \/ RemoveFromCart
    \/ ClearCart
    \/ PageFetchCartItems
    \/ UpdateOthersLine
    \/ RemoveOthersLine

SpecRls == InitRls /\ [][NextRls]_vars

(***************************************************************************)
(* Adds of the Products page in a loaded session, with their calls in      *)
(* flight.  firstAdd here follows one product: quantity is what its line   *)
(* held at the start plus the quantities of its adds that succeeded, and   *)
(* next is 1 once two adds of it were in flight together.                  *)
(***************************************************************************)
\* another add of the product of the i-th call is in flight
Overlaps(i) ==
    \E j \in 1..Len(inFlight) :
        /\ j # i
        /\ inFlight[j].op = "addToCart"
        /\ inFlight[j].product_id = inFlight[i].product_id

\* an addToCart in flight settles
SettleAddToCart ==
    \E i \in 1..Len(inFlight), ok \in BOOLEAN :
        /\ Settle(i, ok)
        /\ firstAdd' =
              IF inFlight[i].product_id # firstAdd.product_id THEN firstAdd
              ELSE [firstAdd EXCEPT
                      !.quantity = IF ok THEN @ + inFlight[i].quantity ELSE @,
                      !.next = IF Overlaps(i) THEN 1 ELSE @]

\* a signed-in session whose cart is loaded: empty, or one line of one unit
InitTwoAdds ==
    /\ user \in Users
    /\ \E productId \in ProductIds, quantity \in 0..1 :
          /\ cart_items = IF quantity = 0 THEN {}
                          ELSE {[id |-> 1, user_id |-> user,
                                 product_id |-> productId, quantity |-> quantity]}
          /\ nextId = 1 + quantity
          /\ firstAdd = [product_id |-> productId, quantity |-> quantity, next |-> 0]
    /\ items = TransformedData(ById(cart_items))
    /\ cartCount = newCount(items)
    /\ total = newTotal(items)
    /\ effectPending = FALSE
    /\ cartItems = <<>>
    /\ error = NoError
    /\ last = NoCall
    /\ inFlight = <<>>
    /\ loading = TRUE
    /\ processing = FALSE
    /\ subtotal = NotRendered
    /\ orders = {}
    /\ order_items = {}
    /\ shown = NotShown
    /\ pageQuantity = 1

NextTwoAdds ==
    \/ ItemsEffect
    \/ IssueAddToCart
    \/ SettleAddToCart

SpecTwoAdds == InitTwoAdds /\ [][NextTwoAdds]_vars

(***************************************************************************)
(* Identity changes with loads in flight: two identities with one line     *)
(* each sign in and out of one browser session; nothing writes the table.  *)
(***************************************************************************)
Identities == Users \cup {OtherUser}

\* u signs in: the [user] effect of CartProvider calls fetchCartItems()
SignIn ==
    \E u \in Identities :
        /\ user = NoUser
        /\ Issue(Call("fetchCartItems", u, 0, 0, 0))
        /\ user' = u
        /\ UNCHANGED <<remoteVars, contextVars, cartPageVars, cartFlagVars,
                       last, firstAdd, orderVars, productPageVars>>

InitIdentity ==
    /\ user = NoUser
    /\ cart_items = OtherRows \cup
                    { [id |-> 2, user_id |-> u, product_id |-> 2, quantity |-> 1] :
                      u \in Users }
    /\ nextId = 3
    /\ items = <<>>
    /\ cartCount = 0
    /\ total = 0
    /\ effectPending = TRUE
    /\ cartItems = <<>>
    /\ error = NoError
    /\ last = NoCall
    /\ firstAdd = NoAdd
    /\ inFlight = <<>>
    /\ loading = TRUE
    /\ processing = FALSE
    /\ subtotal = NotRendered
    /\ orders = {}
    /\ order_items = {}
    /\ shown = NotShown
    /\ pageQuantity = 1

NextIdentity ==
    \/ ItemsEffect
    \/ SignIn
    \/ UserEffectSignedOut
    \/ SettleCall

SpecIdentity == InitIdentity /\ [][NextIdentity]_vars

(***************************************************************************)
(* Quantities and stock: what the UI offers in a loaded session with one   *)
(* unit of products 1 and 2: the Add to Cart button of the Products page,  *)
(* and the quantity select of the cart page.                               *)
(***************************************************************************)
\* the options of the quantity select: [...Array(10)].map((_, i) => i + 1)
SelectOptions == 1..10

\* cart page: the quantity select of a line calls updateQuantity(product_id, value)
SelectQuantity ==
    \E i \in 1..Len(items), value \in SelectOptions, ok \in BOOLEAN :
        SetQuantity(items[i].product_id, value, ok)

NextStock ==
    \/ ItemsEffect
    \/ HandleAddToCart
    \/ SelectQuantity

SpecStock == InitPage /\ [][NextStock]_vars

(***************************************************************************)
(* The quantity of the product page: its minus and plus buttons and its    *)
(* number input all go through handleQuantityChange; Add to Cart adds the  *)
(* selected quantity.  The Products page always adds 1.                    *)
(***************************************************************************)
Max(a, b) == IF a >= b THEN a ELSE b
Min(a, b) == IF a <= b THEN a ELSE b

\* integers typed into the number input
InputValues == (0 - MaxInput)..MaxInput

\* a variant of handleQuantityChange without the lower limit: Math.min(10, value)
handleQuantityChangeUpperOnly(value) == Min(10, value)

\* handleQuantityChange: setQuantity(Math.max(1, Math.min(10, value)))
handleQuantityChange(value) == Max(1, Min(10, value))

\* the minus button, the plus button, or an integer typed into the input
ChangeQuantity ==
    \E value \in {pageQuantity - 1, pageQuantity + 1} \cup InputValues :
        /\ pageQuantity' = handleQuantityChange(value)
        /\ last' = Observe("handleQuantityChange", value < 1, "other", "none", 0,
                           FALSE, "none", FALSE, FALSE)
        /\ UNCHANGED <<user, remoteVars, contextVars, cartPageVars, cartFlagVars,
                       firstAdd, inFlight, orderVars, shown>>

\* product page: handleAddToCart calls addToCart(product.id, quantity)
DetailsAddToCart ==
    \E productId \in ProductIds :
        \E fail \in 0..addToCart(productId, pageQuantity, 0).calls :
            /\ user # NoUser
            /\ Add(productId, pageQuantity, fail,
                   handleAddToCart(addToCart(productId, pageQuantity, fail)))

NextQuantity ==
    \/ ItemsEffect
    \/ UserEffectSignedIn
    \/ HandleAddToCart
    \/ ChangeQuantity
    \/ DetailsAddToCart

SpecQuantity == Init /\ [][NextQuantity]_vars

(***************************************************************************)
(* Checkout: handleSubmit inserts the order, then its order items, then    *)
(* calls clearCart; its catch block alerts and raises nothing.             *)
(***************************************************************************)
FailPoints == {"none", "orders", "order_items", "clearCart"}

\* price: item.product.discount_price || item.product.price
orderItemPrice(item) ==
    IF ~item.product.discount_price.null /\ item.product.discount_price.value # 0
    THEN item.product.discount_price.value
    ELSE item.product.price

\* the row of .from('orders').insert([...]).select().single()
OrderRow(id) ==
    [id |-> id, user_id |-> user, total_amount |-> total, status |-> "pending"]

\* items.map(item => ({order_id, product_id, quantity, price}))
OrderItems(orderId) ==
    { [order_id |-> orderId, line |-> i, product_id |-> items[i].product_id,
       quantity |-> items[i].quantity, price |-> orderItemPrice(items[i])] :
      i \in 1..Len(items) }

Submitted(ords, lines, cart, calls, failed) ==
    [orders |-> ords, order_items |-> lines,
     cart |-> [cart EXCEPT !.calls = calls, !.failed = failed, !.raised = "none"],
     alert |-> IF failed THEN "Failed to place order. Please try again." ELSE "none"]

\* a variant of handleSubmit that calls clearCart before it inserts the order items
handleSubmitClearingFirst(fail) ==
    LET order == OrderRow(Cardinality(orders) + 1) IN
    IF fail = "orders" THEN Submitted(orders, order_items, Returned, 1, TRUE)
    ELSE IF fail = "clearCart"
    THEN Submitted(orders \cup {order}, order_items, Returned, 2, TRUE)
    ELSE IF fail = "order_items"
    THEN Submitted(orders \cup {order}, order_items, clearCart(TRUE), 3, TRUE)
    ELSE Submitted(orders \cup {order}, order_items \cup OrderItems(order.id),
                   clearCart(TRUE), 3, FALSE)

\* handleSubmit, with the request named by fail returning an error
handleSubmit(fail) ==
    LET order == OrderRow(Cardinality(orders) + 1) IN
    IF fail = "orders" THEN Submitted(orders, order_items, Returned, 1, TRUE)
    ELSE IF fail = "order_items"
    THEN Submitted(orders \cup {order}, order_items, Returned, 2, TRUE)
    ELSE IF fail = "clearCart"
    THEN Submitted(orders \cup {order}, order_items \cup OrderItems(order.id),
                   clearCart(FALSE), 3, TRUE)
    ELSE Submitted(orders \cup {order}, order_items \cup OrderItems(order.id),
                   clearCart(TRUE), 3, FALSE)

\* the form of the Checkout page is submitted; the page renders it only with items
HandleSubmit ==
    \E fail \in FailPoints :
        LET r == handleSubmit(fail) IN
        /\ ~effectPending
        /\ items # <<>>
        /\ Cardinality(orders) < MaxOrders
        /\ orders' = r.orders
        /\ order_items' = r.order_items
        /\ items' = r.cart.items
        /\ cart_items' = r.cart.cart_items
        /\ nextId' = r.cart.nextId
        /\ effectPending' = r.cart.setItems
        /\ last' = Observe("Checkout.handleSubmit", FALSE, "other", r.cart.raised,
                           r.cart.calls, r.cart.failed, r.alert,
                           r.cart.items # items, r.cart.cart_items # cart_items)
        /\ firstAdd' = NoAdd
        /\ UNCHANGED <<user, cartCount, total, cartPageVars, cartFlagVars, inFlight,
                       productPageVars>>

NextCheckout ==
    \/ ItemsEffect
    \/ UserEffectSignedIn
    \/ HandleAddToCart
    \/ HandleSubmit

SpecCheckout == Init /\ [][NextCheckout]_vars

(***************************************************************************)
(* The discount badge of a product card.  calculateDiscount of the         *)
(* Products component (src/src/components/Products.tsx) and of the product *)
(* page (src/unnamed/part_005) are the same function; the Products page    *)
(* (src/unnamed/part_000) has its own.  Division and Math.round are those  *)
(* of JavaScript numbers: x / 0 is NaN or an infinity, and Math.round(x)   *)
(* is floor(x + 0.5).                                                      *)
(***************************************************************************)
Null == [kind |-> "null", value |-> 0]
NaN == [kind |-> "NaN", value |-> 0]
Infinity == [kind |-> "Infinity", value |-> 0]
MinusInfinity == [kind |-> "-Infinity", value |-> 0]

\* Math.round(((price - discountPrice) / price) * 100)
RoundedPercentage(price, discountPrice) ==
    IF price = 0
    THEN IF price - discountPrice = 0 THEN NaN
         ELSE IF price - discountPrice > 0 THEN Infinity ELSE MinusInfinity
    ELSE Number((200 * (price - discountPrice) + price) \div (2 * price))

\* Products component, product page: if (!discountPrice) return null
calculateDiscount(price, discountPrice) ==
    IF discountPrice.null \/ discountPrice.value = 0 THEN Null
    ELSE RoundedPercentage(price, discountPrice.value)

\* Products page: no guard; a null discountPrice counts as 0 in the subtraction
ProductsPageCalculateDiscount(originalPrice, discountPrice) ==
    RoundedPercentage(originalPrice,
                      IF discountPrice.null THEN 0 ELSE discountPrice.value)

Prices == 0..MaxPrice
DiscountPrices == {NullPrice} \cup {Price(v) : v \in Prices}

\* a product card is rendered for a product with these prices
RenderProductCard ==
    /\ \E price \in Prices, discountPrice \in DiscountPrices :
          shown' = [price |-> price, discount_price |-> discountPrice,
                    percent |-> calculateDiscount(price, discountPrice),
                    listPercent |-> ProductsPageCalculateDiscount(price, discountPrice)]
    /\ UNCHANGED <<user, remoteVars, contextVars, cartPageVars, cartFlagVars,
                   last, firstAdd, inFlight, orderVars, pageQuantity>>

SpecDiscount == Init /\ [][RenderProductCard]_vars

(***************************************************************************)
(* Loading carts whose lines may lack a product: cart_items.product_id is  *)
(* nullable, and a row with product_id NULL embeds no product.  The remote *)
(* table starts with any cart of the signed-in identity, such rows         *)
(* included; the store and the Cart component load it.                     *)
(***************************************************************************)
NoProduct == 0    \* stands for product_id NULL

\* the carts of identity u with n lines, ids 1..n
RECURSIVE CartsOf(_, _)
CartsOf(u, n) ==
    IF n = 0 THEN {{}}
    ELSE { rows \cup {[id |-> n, user_id |-> u, product_id |-> productId,
                       quantity |-> quantity]} :
              rows \in CartsOf(u, n - 1),
              productId \in ProductIds \cup {NoProduct},
              quantity \in 1..MaxQuantity }

InitSnapshot ==
    /\ user \in Users
    /\ \E n \in 0..MaxId :
          /\ cart_items \in CartsOf(user, n)
          /\ nextId = n + 1
    /\ items = <<>>
    /\ cartCount = 0
    /\ total = 0
    /\ effectPending = FALSE
    /\ cartItems = <<>>
    /\ error = NoError
    /\ last = NoCall
    /\ firstAdd = NoAdd
    /\ inFlight = <<>>
    /\ loading = TRUE
    /\ processing = FALSE
    /\ subtotal = NotRendered
    /\ orders = {}
    /\ order_items = {}
    /\ shown = NotShown
    /\ pageQuantity = 1

NextSnapshot ==
    \/ ItemsEffect
    \/ UserEffectSignedIn
    \/ PageFetchCartItems

SpecSnapshot == InitSnapshot /\ [][NextSnapshot]_vars

TypeOK ==
    /\ user \in Users \cup {NoUser}
    /\ nextId \in 1..(MaxId + 1)
    /\ \A r \in cart_items : r.id < nextId /\ r.product_id \in ProductIds
    /\ \A i \in 1..Len(items) : items[i].product.defined

(***************************************************************************)
(* Properties                                                              *)
(***************************************************************************)
\* the sum of F over the lines of a cart
SumOfLines(lines, F(_)) ==
    LET S[n \in 0..Len(lines)] == IF n = 0 THEN 0 ELSE S[n - 1] + F(lines[n])
    IN  S[Len(lines)]

\* the price one unit of a line is sold at
EffectiveUnitPrice(line) ==
    IF line.product.discount_price.null THEN line.product.price
    ELSE line.product.discount_price.value

\* the remote lines of the signed-in identity for productId
RemoteLines(productId) == {r \in OwnRows(user) : r.product_id = productId}

\* the positions of the local lines for productId
LocalLines(productId) == {i \in 1..Len(items) : items[i].product_id = productId}

\* C1: in every reachable state the remote table holds at most one line per
\* (identity, product) and the local cart at most one line per product.
OneLinePerProduct ==
    /\ \A r1, r2 \in cart_items :
          (r1.user_id = r2.user_id /\ r1.product_id = r2.product_id) => r1 = r2
    /\ \A i, j \in 1..Len(items) :
          items[i].product_id = items[j].product_id => i = j

\* C2: in every reachable state every line, remote and local, has quantity >= 1.
QuantityAtLeastOne ==
    /\ \A r \in cart_items : r.quantity >= 1
    /\ \A i \in 1..Len(items) : items[i].quantity >= 1

\* C3: when addToCart(p, q1) on a cart with no line for p has succeeded and the
\* next call, addToCart(p, q2), has succeeded too (q1, q2 >= 1), there is exactly
\* one local line and exactly one remote line for p, each with quantity q1 + q2.
AddTwiceSums ==
    firstAdd.next >= 1 =>
        /\ Cardinality(LocalLines(firstAdd.product_id)) = 1
        /\ Cardinality(RemoteLines(firstAdd.product_id)) = 1
        /\ \A i \in LocalLines(firstAdd.product_id) :
              items[i].quantity = firstAdd.quantity + firstAdd.next
        /\ \A r \in RemoteLines(firstAdd.product_id) :
              r.quantity = firstAdd.quantity + firstAdd.next

\* C3 happens: two successive adds of 1 and 2 units of one product have succeeded
AddTwiceSumsWitness ==
    /\ firstAdd.quantity = 1
    /\ firstAdd.next = 2
    /\ last.op = "addToCart"
    /\ last.calls = 1

\* C4: updateQuantity with a quantity < 1, in CartContext and in the Cart
\* component, issues no remote request, leaves the local lines and the remote
\* table as they were, and throws nothing.
LowQuantityIsNoOp ==
    (last.op \in {"updateQuantity", "Cart.updateQuantity"} /\ last.low) =>
        /\ last.calls = 0
        /\ ~last.localChanged
        /\ ~last.remoteChanged
        /\ last.raised = "none"
        /\ ~last.failed

\* C4 happens: the Cart component, showing lines, was asked for a quantity < 1
LowQuantityIsNoOpWitness ==
    /\ last.op = "Cart.updateQuantity"
    /\ last.low
    /\ cartItems # <<>>
    /\ items # <<>>
    /\ OwnRows(user) # {}

\* C5: when a remote request of addToCart fails, the local items are what they
\* were before the call, the failure is thrown to the caller, and the caller
\* does not alert "Product added to cart!".
FailedAddLeavesCartAndRaises ==
    (last.op = "addToCart" /\ last.failed) =>
        /\ ~last.localChanged
        /\ last.raised # "none"
        /\ last.alert # "Product added to cart!"

\* C5 happens: the Products page called addToCart on a cart with lines, and a request failed
FailedAddLeavesCartAndRaisesWitness ==
    /\ last.op = "addToCart"
    /\ last.failed
    /\ last.alert = "Failed to add product to cart. Please try again."
    /\ items # <<>>

\* C6: when the remote request of a setQuantity, remove or clear fails, in
\* CartContext or in the Cart component, the local lines are unchanged and the
\* error is thrown to the caller.
FailedWritePropagates ==
    (/\ last.op \in {"updateQuantity", "removeFromCart", "clearCart",
                     "Cart.updateQuantity", "Cart.removeItem"}
     /\ last.failed) =>
        /\ ~last.localChanged
        /\ last.raised # "none"

\* C7: a load that succeeded has made the local lines exactly the remote lines
\* of the identity; a load that failed has left the local lines unchanged and
\* has thrown an error to its caller.
LoadReplacesOrReports ==
    last.op = "fetchCartItems" =>
        /\ ~last.failed =>
              /\ Len(items) = Cardinality(OwnRows(user))
              /\ \A r \in OwnRows(user) : \E i \in 1..Len(items) :
                    /\ items[i].id = r.id
                    /\ items[i].product_id = r.product_id
                    /\ items[i].quantity = r.quantity
        /\ last.failed =>
              /\ ~last.localChanged
              /\ last.raised # "none"

\* C8: once the [items] effect has run, total is the sum over the lines of
\* effective unit price * quantity, the effective unit price being the
\* discount price when it is not null (0 included) and the list price otherwise.
TotalIsSumOfEffectivePrices ==
    ~effectPending =>
        total = SumOfLines(items, LAMBDA line : EffectiveUnitPrice(line) * line.quantity)

\* C8 happens: the total of a cart with a discounted line and a line discounted to 0
TotalIsSumOfEffectivePricesWitness ==
    /\ ~effectPending
    /\ Len(items) = 2
    /\ \E i, j \in 1..Len(items) :
          /\ items[i].product_id = 1
          /\ items[j].product_id = 2
          /\ items[j].quantity = 2
          /\ total = 800 * items[i].quantity

\* C9: once the [items] effect has run, cartCount is the sum of the quantities
\* of the lines, and cartCount and total are both 0 for the empty cart.
CountIsSumOfQuantities ==
    ~effectPending =>
        /\ cartCount = SumOfLines(items, LAMBDA line : line.quantity)
        /\ items = <<>> => (cartCount = 0 /\ total = 0)

\* C9 happens: the count of a cart of two lines holding three units
CountIsSumOfQuantitiesWitness ==
    /\ ~effectPending
    /\ Len(items) = 2
    /\ cartCount = 3

\* C10: removeFromCart(p) whose remote delete succeeded, on a cart whose lines,
\* local and remote, were all for p, leaves no local and no remote line;
\* removeFromCart(p) on a cart with no line for p changes neither the local
\* lines nor the remote table and, its remote delete succeeding, throws nothing.
RemoveOnlyLineEmptiesCart ==
    last.op = "removeFromCart" =>
        /\ (last.pre = "only" /\ ~last.failed) =>
              (items = <<>> /\ OwnRows(user) = {})
        /\ last.pre = "absent" =>
              /\ ~last.localChanged
              /\ ~last.remoteChanged
              /\ ~last.failed => last.raised = "none"

\* C10 happens: the only line of the cart has been removed
RemoveOnlyLineEmptiesCartWitness ==
    /\ last.op = "removeFromCart"
    /\ last.pre = "only"
    /\ ~last.failed
    /\ last.localChanged
    /\ last.remoteChanged

\* C11: after a clearCart whose remote delete succeeded, whatever lines were
\* there before, the local cart has no line, the remote table holds no line of
\* the identity, and once the [items] effect has run cartCount and total are 0.
ClearEmptiesCart ==
    (last.op = "clearCart" /\ last.calls = 1 /\ ~last.failed) =>
        /\ items = <<>>
        /\ OwnRows(user) = {}
        /\ ~effectPending => (cartCount = 0 /\ total = 0)

\* C11 happens: a cart with two remote lines for one product has been cleared
ClearEmptiesCartWitness ==
    /\ last.op = "clearCart"
    /\ last.pre = "duplicates"
    /\ last.calls = 1
    /\ ~last.failed
    /\ last.localChanged
    /\ ~effectPending

\* C12: addToCart(p, q) by a signed-in identity, with no local line for p and no
\* products row p, throws 'Product not found' after the product fetch alone (no
\* insert is issued) and leaves the remote table and the local lines unchanged.
AddUnknownProductNotFound ==
    (last.op = "addToCart" /\ last.pre = "noProduct" /\ user # NoUser) =>
        /\ last.raised = "Product not found"
        /\ last.calls = 1
        /\ ~last.remoteChanged
        /\ ~last.localChanged

\* C12 happens: a product without a products row was added to a cart with lines
AddUnknownProductNotFoundWitness ==
    /\ last.op = "addToCart"
    /\ last.pre = "noProduct"
    /\ user # NoUser
    /\ items # <<>>
    /\ OwnRows(user) # {}

\* C13: a call of addToCart, removeFromCart, updateQuantity or clearCart has
\* changed the local lines only if it issued its remote requests and none of
\* them failed.
LocalChangeOnlyAfterRemoteSuccess ==
    (/\ last.op \in {"addToCart", "removeFromCart", "updateQuantity", "clearCart"}
     /\ last.localChanged) =>
        /\ last.calls >= 1
        /\ ~last.failed
        /\ last.raised = "none"

\* C13 happens: an add inserted a line remotely and then appended it locally
LocalChangeOnlyAfterRemoteSuccessWitness ==
    /\ last.op = "addToCart"
    /\ last.calls = 2
    /\ last.localChanged
    /\ last.remoteChanged

\* the lines of a cart that have a product snapshot
WithSnapshot(lines) == SelectSeq(lines, LAMBDA line : line.product.defined)

\* C14: lines without a product snapshot are left out of the subtotal and never
\* make its computation fail, in the store and in the Cart component, and after
\* a load no local line is without a product snapshot.
SnapshotLinesExcluded ==
    /\ ~effectPending =>
          total = SumOfLines(WithSnapshot(items),
                             LAMBDA line : EffectiveUnitPrice(line) * line.quantity)
    /\ subtotal.kind # "TypeError"
    /\ last.op \in {"fetchCartItems", "Cart.fetchCartItems"} =>
          /\ WithSnapshot(items) = items
          /\ WithSnapshot(cartItems) = cartItems

\* round(((list - discount) / list) * 100) for list # 0: the integer k with
\* k - 1/2 <= 100 * (list - discount) / list < k + 1/2
DiscountPercent(list, discount) ==
    CHOOSE k \in (0 - 100 * MaxPrice)..100 :
        /\ (2 * k - 1) * list <= 200 * (list - discount)
        /\ 200 * (list - discount) < (2 * k + 1) * list

\* C15: the discount percentage computed for a product card is
\* round(((list - discount) / list) * 100) when there is a discount price, is
\* no value when there is none, and is never the result of a division by zero
\* when the list price is 0.
DiscountPercentIsRounded ==
    shown # NotShown =>
        \A percent \in {shown.percent, shown.listPercent} :
            /\ shown.discount_price.null => percent = Null
            /\ (~shown.discount_price.null /\ shown.price # 0) =>
                  percent = Number(DiscountPercent(shown.price, shown.discount_price.value))
            /\ shown.price = 0 => percent.kind \in {"null", "number"}

\* C16: while nobody is signed in the local cart holds no line and, once the
\* [items] effect has run, cartCount and total are 0; and the identity that is
\* signed in has had its load issued.
SignedOutCartIsEmpty ==
    user = NoUser =>
        /\ items = <<>>
        /\ ~effectPending => (cartCount = 0 /\ total = 0)

\* C17: at no time are two user-triggered calls of the cart store (addToCart,
\* updateQuantity, removeFromCart) in flight.
AtMostOneInFlight ==
    Cardinality({i \in 1..Len(inFlight) : inFlight[i].op # "fetchCartItems"}) <= 1

\* the mounted Cart component has a call of one of these functions in flight
CartInFlight(ops) ==
    \E i \in 1..Len(inFlight) : inFlight[i].mounted /\ inFlight[i].op \in ops

LinesOwnedExclusively ==
    /\ {r \in cart_items : r.user_id = OtherUser} = OtherRows
    /\ \A i \in 1..Len(items) : items[i].id \notin OtherIds
    /\ \A i \in 1..Len(cartItems) : cartItems[i].id \notin OtherIds

\* C19 happens: the Cart component's delete naming the other identity's line
\* was sent and returned no error, while the signed-in identity has a line for
\* the same product
LinesOwnedExclusivelyWitness ==
    /\ last.op = "Cart.removeItem"
    /\ last.calls > 0
    /\ ~last.failed
    /\ \E r \in OwnRows(user) : \E o \in OtherRows : r.product_id = o.product_id

\* C20: the checkout clears the cart only after both the order insert and the
\* order-items insert have succeeded: a submission after which the cart, local
\* or remote, differs is one whose three requests all succeeded and whose order
\* and order items are stored; a submission in which either insert failed
\* leaves the local and the remote cart as they were.
CheckoutClearsAfterSuccess ==
    last.op = "Checkout.handleSubmit" =>
        /\ (last.localChanged \/ last.remoteChanged) =>
              /\ last.calls = 3
              /\ ~last.failed
              /\ \E o \in orders : \E l \in order_items : l.order_id = o.id
              /\ items = <<>>
              /\ OwnRows(user) = {}
        /\ (last.failed /\ last.calls <= 2) =>
              /\ ~last.localChanged
              /\ ~last.remoteChanged
              /\ items # <<>>

\* C20 happens: the order was inserted, the insert of its items failed, and the
\* cart still holds its lines
CheckoutClearsAfterSuccessWitness ==
    /\ last.op = "Checkout.handleSubmit"
    /\ last.failed
    /\ last.calls = 2
    /\ orders # {}
    /\ order_items = {}
    /\ items # <<>>
    /\ OwnRows(user) # {}

\* C21: a submission of the checkout that reports failure to the user leaves
\* no order behind: the orders table is what it was before the submission, so
\* that a retry cannot insert a second order for the same cart.
FailedCheckoutLeavesNoOrder ==
    [][(last'.op = "Checkout.handleSubmit" /\ last'.alert # "none") =>
          orders' = orders]_vars

\* the stored order items of order o, in the order they were inserted
ItemsOfOrder(o) ==
    LET lines == {l \in order_items : l.order_id = o.id}
    IN  [i \in 1..Cardinality(lines) |-> CHOOSE l \in lines : l.line = i]

\* C22: for every order the checkout has created together with its items, the
\* stored total_amount is the sum over its order items of the stored price
\* times the quantity, whatever the products' prices, a discount price of 0
\* included.
OrderTotalIsSumOfItems ==
    \A o \in orders :
        ItemsOfOrder(o) # <<>> =>
            o.total_amount = SumOfLines(ItemsOfOrder(o),
                                        LAMBDA l : l.price * l.quantity)

\* C23: once adds of one product that were in flight together have all
\* settled, the cart holds a single line for the product, locally and remotely,
\* and its quantity is what the line held before plus the quantities of the
\* adds that succeeded.
OverlappingAddsSum ==
    (inFlight = <<>> /\ firstAdd.next = 1 /\ firstAdd.quantity > 0) =>
        /\ Cardinality(LocalLines(firstAdd.product_id)) = 1
        /\ Cardinality(RemoteLines(firstAdd.product_id)) = 1
        /\ \A i \in LocalLines(firstAdd.product_id) :
              items[i].quantity = firstAdd.quantity
        /\ \A r \in RemoteLines(firstAdd.product_id) :
              r.quantity = firstAdd.quantity

\* C24: at every moment each line of the local cart is a cart line of the
\* identity that is signed in, also when a load issued for one identity settles
\* after that identity has signed out or another has signed in.
LocalLinesOfSignedInIdentity ==
    \A i \in 1..Len(items) :
        \E r \in cart_items : r.id = items[i].id /\ r.user_id = user

\* the local cart and the remote cart of the signed-in identity, as sets of
\* (product, quantity)
LocalCart == {<<items[i].product_id, items[i].quantity>> : i \in 1..Len(items)}
RemoteCart == {<<r.product_id, r.quantity>> : r \in OwnRows(user)}

\* C25: in a session with no other writer, whenever no store operation is in
\* flight the local cart equals the remote cart of the identity: the same
\* products with the same quantity per product, after any sequence of load,
\* add, setQuantity, remove and clear, each succeeding or failing.
LocalEqualsRemote == LocalCart = RemoteCart

\* C25, amended: a load that succeeds leaves the local cart equal to the remote
\* cart of the identity, and every other step of the store (add, setQuantity,
\* remove, clear, succeeding or failing, sign-out) leaves them equal if they
\* were; only a load that fails may leave them different.
LocalEqualsRemoteUnlessLoadFailed ==
    [][IF last'.op = "fetchCartItems"
       THEN ~last'.failed => LocalEqualsRemote'
       ELSE LocalEqualsRemote => LocalEqualsRemote']_vars

\* C25 happens: a remove for a product that has no line was sent and succeeded,
\* and the cart, which holds a line of another product, is the remote cart
LocalEqualsRemoteUnlessLoadFailedWitness ==
    /\ last.op = "removeFromCart"
    /\ last.calls > 0
    /\ ~last.failed
    /\ ~last.localChanged
    /\ items # <<>>
    /\ LocalEqualsRemote

\* C26: while nobody is signed in, addToCart, removeFromCart, updateQuantity
\* and clearCart of the store send no remote request, leave the local lines and
\* the remote table as they were, and return without raising.
SignedOutCallsDoNothing ==
    (/\ user = NoUser
     /\ last.op \in {"addToCart", "removeFromCart", "updateQuantity", "clearCart"}) =>
        /\ last.calls = 0
        /\ ~last.failed
        /\ last.raised = "none"
        /\ ~last.localChanged
        /\ ~last.remoteChanged

\* C26 happens: clearCart was called with nobody signed in while the table
\* holds cart lines
SignedOutCallsDoNothingWitness ==
    /\ user = NoUser
    /\ last.op = "clearCart"
    /\ cart_items # {}
    /\ items = <<>>

\* the Cart component shows the lines the store holds
SameLines ==
    /\ Len(cartItems) = Len(items)
    /\ \A i \in 1..Len(items) :
          /\ cartItems[i].product_id = items[i].product_id
          /\ cartItems[i].quantity = items[i].quantity

\* C27: for every cart the pricing implementations agree: the store's total is
\* the sum of the line prices the checkout writes for the store's lines times
\* their quantities, and the subtotal the Cart component computes for the same
\* lines is the store's total, whether the discount price is present, NULL or 0.
PricingImplementationsAgree ==
    ~effectPending =>
        /\ total = SumOfLines(items, LAMBDA item : orderItemPrice(item) * item.quantity)
        /\ (subtotal.kind = "number" /\ SameLines) => subtotal.value = total

\* C28: starting from lines within stock, nothing the UI offers (the Cart
\* component's buttons, the quantity select of the cart page, adds from the
\* product pages) makes a cart line, local or remote, hold more units than the
\* product's stock_quantity.
QuantityWithinStock ==
    /\ \A r \in OwnRows(user) :
          r.quantity <= ProductRow(r.product_id).stock_quantity
    /\ \A i \in 1..Len(items) : items[i].quantity <= items[i].product.stock_quantity
    /\ \A i \in 1..Len(cartItems) :
          cartItems[i].quantity <= cartItems[i].product.stock_quantity

\* C29: every add the UI issues has a quantity of at least 1: the quantity
\* selected on the product page stays within 1..10 under its minus and plus
\* buttons and any integer typed into its input, and the Products page adds 1.
UiAddsAtLeastOne ==
    /\ pageQuantity \in 1..10
    /\ last.op = "addToCart" => ~last.low

\* C29 happens: a value below 1 was given to handleQuantityChange after the
\* product page had added to the cart
UiAddsAtLeastOneWitness ==
    /\ last.op = "handleQuantityChange"
    /\ last.low
    /\ pageQuantity = 1
    /\ items # <<>>

====
